---- MODULE Spec2Model ----
(***************************************************************************)
(* Model of src/server.py: a thread-per-connection static file server.     *)
(*                                                                         *)
(* Text and bytes are sequences of one-character strings.  A connection    *)
(* carries the bytes its client delivers (one element of `chunks` per      *)
(* recv call), the handler's position, the bytes written back and the      *)
(* file-system calls the handler made.                                     *)
(***************************************************************************)
EXTENDS Integers, Sequences, FiniteSets, TLC

VARIABLES
    docroot,    \* HTTPWorker.docroot: the absolute document root (main, line 124)
    listening,  \* the listening socket of run_server is open and its loop runs
    conns,      \* one record per accepted connection, in accept order
    mainpc      \* where the main thread is: "main", "run_server", "exit1", "raised"

vars == <<docroot, listening, conns, mainpc>>

----------------------------------------------------------------------------
(* Bounds of the model. *)

\* Most path segments in a request target.
MaxSegs == 3
\* Most connections the acceptor takes in one run.
MaxConns == 2
\* A failing sendall has written at most this many leading pieces.
MaxCut == 1
\* The bytes kept of a client that sends for ever.
MaxDrip == 2

----------------------------------------------------------------------------
(* Characters and strings. *)

CR == "\r"
LF == "\n"
SP == " "
SLASH == "/"
DOT == "."
CRLF == <<CR, LF>>
Terminator == CRLF \o CRLF

\* str.split() with no argument splits on runs of these.
Whitespace == {" ", "\t", "\n", "\r", "\f"}

StrGET == <<"G", "E", "T">>
StrPOST == <<"P", "O", "S", "T">>
StrHEAD == <<"H", "E", "A", "D">>
StrGetLower == <<"g", "e", "t">>
StrVersion == <<"H", "T", "T", "P", "/", "1", ".", "1">>
StrIndexHtml == <<"i", "n", "d", "e", "x", ".", "h", "t", "m", "l">>
StrDotHtml == <<".", "h", "t", "m", "l">>
StrDotDot == <<DOT, DOT>>

Min(a, b) == IF a <= b THEN a ELSE b

\* s.startswith(p)
StartsWith(s, p) == Len(p) <= Len(s) /\ SubSeq(s, 1, Len(p)) = p

\* s.endswith(p)
EndsWith(s, p) == Len(p) <= Len(s) /\ SubSeq(s, Len(s) - Len(p) + 1, Len(s)) = p

\* Index of the first occurrence of p in s at or after position i, or 0.
RECURSIVE FindFrom(_, _, _)
FindFrom(s, p, i) ==
    IF i + Len(p) - 1 > Len(s) THEN 0
    ELSE IF SubSeq(s, i, i + Len(p) - 1) = p THEN i
    ELSE FindFrom(s, p, i + 1)

\* Index of the first occurrence of p in s, or 0.
FindFirst(s, p) == FindFrom(s, p, 1)

\* p in s, for sequences
Contains(s, p) == FindFirst(s, p) > 0

LStripOne(s, ch) == IF s # <<>> /\ Head(s) = ch THEN Tail(s) ELSE s

\* s.lstrip(ch): every leading ch is removed.
RECURSIVE LStrip(_, _)
LStrip(s, ch) == IF s # <<>> /\ Head(s) = ch THEN LStrip(Tail(s), ch) ELSE s

\* Index of the first character of s at or after position k that is in the
\* set chars, or Len(s) + 1.
RECURSIVE IndexIn(_, _, _)
IndexIn(s, chars, k) ==
    IF k > Len(s) THEN k
    ELSE IF s[k] \in chars THEN k
    ELSE IndexIn(s, chars, k + 1)

\* s.split(ch): the pieces between occurrences of the character ch.
RECURSIVE SplitChar(_, _)
SplitChar(s, ch) ==
    LET i == IndexIn(s, {ch}, 1)
    IN IF i <= Len(s)
       THEN <<SubSeq(s, 1, i - 1)>> \o SplitChar(SubSeq(s, i + 1, Len(s)), ch)
       ELSE <<s>>

\* s.split(): the maximal runs of non-whitespace characters.
RECURSIVE SplitWhitespace(_)
SplitWhitespace(s) ==
    IF s = <<>> THEN <<>>
    ELSE IF Head(s) \in Whitespace THEN SplitWhitespace(Tail(s))
    ELSE LET i == IndexIn(s, Whitespace, 1)
         IN <<SubSeq(s, 1, i - 1)>> \o SplitWhitespace(SubSeq(s, i, Len(s)))

\* sep.join(parts)
RECURSIVE JoinWith(_, _)
JoinWith(parts, sep) ==
    IF parts = <<>> THEN <<>>
    ELSE IF Len(parts) = 1 THEN parts[1]
    ELSE parts[1] \o sep \o JoinWith(Tail(parts), sep)

\* str(n) for n >= 0: the decimal digits.
DigitChar(d) == <<"0", "1", "2", "3", "4", "5", "6", "7", "8", "9">>[d + 1]
RECURSIVE Decimal(_)
Decimal(n) == IF n < 10 THEN <<DigitChar(n)>> ELSE Decimal(n \div 10) \o <<DigitChar(n % 10)>>

----------------------------------------------------------------------------
(* os.path on POSIX, as the handler uses it. *)

\* os.path.join(a, b)
PathJoin(a, b) ==
    IF StartsWith(b, <<SLASH>>) THEN b
    ELSE IF a = <<>> \/ EndsWith(a, <<SLASH>>) THEN a \o b
    ELSE a \o <<SLASH>> \o b

\* The loop of posixpath.normpath over the components.
RECURSIVE NormComps(_, _, _)
NormComps(comps, acc, rooted) ==
    IF comps = <<>> THEN acc
    ELSE IF Head(comps) = <<>> \/ Head(comps) = <<DOT>>
         THEN NormComps(Tail(comps), acc, rooted)
    ELSE IF \/ Head(comps) # StrDotDot
            \/ (~rooted /\ acc = <<>>)
            \/ (acc # <<>> /\ acc[Len(acc)] = StrDotDot)
         THEN NormComps(Tail(comps), Append(acc, Head(comps)), rooted)
    ELSE IF acc # <<>> THEN NormComps(Tail(comps), SubSeq(acc, 1, Len(acc) - 1), rooted)
    ELSE NormComps(Tail(comps), acc, rooted)

\* os.path.normpath(path)
NormPath(path) ==
    IF path = <<>> THEN <<DOT>>
    ELSE LET slashes == IF ~StartsWith(path, <<SLASH>>) THEN 0
                        ELSE IF StartsWith(path, <<SLASH, SLASH>>)
                                /\ ~StartsWith(path, <<SLASH, SLASH, SLASH>>) THEN 2
                        ELSE 1
             comps == NormComps(SplitChar(path, SLASH), <<>>, slashes > 0)
             body == JoinWith(comps, <<SLASH>>)
             full == (IF slashes = 2 THEN <<SLASH, SLASH>>
                      ELSE IF slashes = 1 THEN <<SLASH>> ELSE <<>>) \o body
         IN IF full = <<>> THEN <<DOT>> ELSE full

\* os.path.abspath(path) of a path that is already absolute.
AbsPath(path) == NormPath(path)

----------------------------------------------------------------------------
(* The host's file tree.  The server never writes it.                      *)
(*                                                                         *)
(*   /w              directory                                             *)
(*   /w/index.html   file                                                  *)
(*   /w/u            file that cannot be opened                            *)
(*   /w/e            directory                                             *)
(*   /w/e/index.html directory                                             *)
(*   /w/e/x          empty file                                            *)
(*   /ws             file, a sibling of /w whose name begins with "w"      *)

SegW == <<"w">>
SegWs == <<"w", "s">>
SegU == <<"u">>
SegE == <<"e">>
SegX == <<"x">>

\* The absolute path with the given segments.
AbsOf(segs) == <<SLASH>> \o JoinWith(segs, <<SLASH>>)

FsEntries ==
    { [path |-> <<SLASH>>, kind |-> "dir", readable |-> TRUE, content |-> <<>>],
      [path |-> AbsOf(<<SegW>>), kind |-> "dir", readable |-> TRUE, content |-> <<>>],
      [path |-> AbsOf(<<SegW, StrIndexHtml>>), kind |-> "file", readable |-> TRUE,
       content |-> <<"h", "i">>],
      [path |-> AbsOf(<<SegW, SegU>>), kind |-> "file", readable |-> FALSE,
       content |-> <<"n", "o">>],
      [path |-> AbsOf(<<SegW, SegE>>), kind |-> "dir", readable |-> TRUE, content |-> <<>>],
      [path |-> AbsOf(<<SegW, SegE, StrIndexHtml>>), kind |-> "dir", readable |-> TRUE,
       content |-> <<>>],
      [path |-> AbsOf(<<SegW, SegE, SegX>>), kind |-> "file", readable |-> TRUE,
       content |-> <<>>],
      [path |-> AbsOf(<<SegWs>>), kind |-> "file", readable |-> TRUE,
       content |-> <<"k", "e", "y">>] }

FsHas(path) == \E e \in FsEntries : e.path = path
FsGet(path) == CHOOSE e \in FsEntries : e.path = path

\* os.path.isdir(path)
IsDir(path) == FsHas(path) /\ FsGet(path).kind = "dir"
\* os.path.exists(path)
Exists(path) == FsHas(path)
\* open(path, 'rb') succeeds and f.read() returns the content
CanOpen(path) == FsHas(path) /\ FsGet(path).kind = "file" /\ FsGet(path).readable
ReadAllFirstByte(path) == SubSeq(FsGet(path).content, 1, Min(1, Len(FsGet(path).content)))
ReadAll(path) == FsGet(path).content

\* mimetypes.guess_type(path)[0], or "" for None
GuessType(path) == IF EndsWith(path, StrDotHtml) THEN "text/html" ELSE ""

----------------------------------------------------------------------------
(* HTTPWorker._parse_request_line, lines 79-86. *)

\* lines[0] of request_text.split('\r\n')
FirstLine(text) ==
    LET i == FindFirst(text, CRLF)
    IN IF i = 0 THEN text ELSE SubSeq(text, 1, i - 1)

ParseRequestLineExact(text) ==
    LET line == FirstLine(text)
        parts == SplitWhitespace(line)
    IN IF line = <<>> \/ Len(parts) # 3
       THEN [ok |-> FALSE, method |-> <<>>, path |-> <<>>, version |-> <<>>]
       ELSE [ok |-> TRUE, method |-> parts[1], path |-> parts[2], version |-> parts[3]]

ParseRequestLine(text) ==
    LET line == FirstLine(text)
        parts == SplitWhitespace(line)
    IN IF line = <<>> THEN [ok |-> FALSE, method |-> <<>>, path |-> <<>>, version |-> <<>>]
       ELSE IF Len(parts) < 3
            THEN [ok |-> FALSE, method |-> <<>>, path |-> <<>>, version |-> <<>>]
       ELSE [ok |-> TRUE, method |-> parts[1], path |-> parts[2], version |-> parts[3]]

----------------------------------------------------------------------------
(* HTTPWorker._send_response, lines 88-100. *)

BodyNotFound == <<"N", "o", "t", " ", "F", "o", "u", "n", "d">>
BodyNotAllowed ==
    <<"M", "e", "t", "h", "o", "d", " ", "N", "o", "t", " ",
      "A", "l", "l", "o", "w", "e", "d">>
BodyInternal ==
    <<"I", "n", "t", "e", "r", "n", "a", "l", " ", "S", "e", "r", "v", "e", "r", " ",
      "E", "r", "r", "o", "r">>

ReasonDefault(status) == "OK"

\* The reason table of line 89, with its default.
Reason(status) ==
    IF status = 200 THEN "OK"
    ELSE IF status = 404 THEN "Not Found"
    ELSE IF status = 500 THEN "Internal Server Error"
    ELSE IF status = 405 THEN "Method Not Allowed"
    ELSE "OK"

\* The value written after "Content-Length: " (line 97).
ContentLengthOfWithBlank(body) == Decimal(Len(body) + Len(CRLF))
ContentLengthOf(body) == Decimal(Len(body))

\* header_lines of lines 92-98: the last element is the string '\r\n'.
HeaderLines(status, body, ctype) ==
    << <<"HTTP/1.1 ">> \o Decimal(status) \o <<" ", Reason(status)>>,
       <<"Date: ", "<now>">>,
       <<"Server: ", "NikkiGorskiServer/1.0">>,
       <<"Content-Type: ", ctype>>,
       <<"Content-Length: ">> \o ContentLengthOf(body),
       CRLF >>

\* The bytes handed to sendall (lines 99-100).
ResponseBytes(status, body, ctype) == JoinWith(HeaderLines(status, body, ctype), CRLF) \o body

----------------------------------------------------------------------------
(* HTTPWorker.run, lines 26-52: what the handler decides from the value    *)
(* _recv_request returned, up to the call of sendall.                      *)

FsOp(op, path) == [op |-> op, path |-> path]

Abort == [kind |-> "abort", status |-> 0, body |-> <<>>, ctype |-> "", fsops |-> <<>>]
Raise(ops) == [kind |-> "raise", status |-> 0, body |-> <<>>, ctype |-> "", fsops |-> ops]
Respond(status, body, ctype, ops) ==
    [kind |-> "respond", status |-> status, body |-> body, ctype |-> ctype, fsops |-> ops]

\* Line 30: the method test.
IsGetMethodAnyCase(method) == method \in {StrGET, StrGetLower}
IsGetMethod(method) == method = StrGET

\* Line 33: the candidate path.
FullPath(root, path) == NormPath(PathJoin(root, LStrip(path, SLASH)))

\* Line 34: the containment check.
Contained(fullpath, root) == StartsWith(fullpath, AbsPath(root))

\* Lines 44-52, for the path left after the directory step.
ServeFile(fullpath, ops) ==
    LET ops2 == Append(ops, FsOp("exists", fullpath))
    IN IF ~Exists(fullpath) THEN Respond(404, BodyNotFound, "text/plain", ops2)
       ELSE LET ops3 == Append(ops2, FsOp("open", fullpath))
            IN IF ~CanOpen(fullpath) THEN Raise(ops3)
               ELSE Respond(200, ReadAll(fullpath),
                            IF GuessType(fullpath) = "" THEN "application/octet-stream"
                            ELSE GuessType(fullpath),
                            ops3)

ServePathNoIndex(fullpath) == ServeFile(fullpath, <<FsOp("isdir", fullpath)>>)

\* Lines 37-46.
ServePath(fullpath) ==
    LET ops1 == <<FsOp("isdir", fullpath)>>
    IN IF IsDir(fullpath)
       THEN LET index == PathJoin(fullpath, StrIndexHtml)
                ops2 == Append(ops1, FsOp("exists", index))
            IN IF Exists(index) THEN ServeFile(index, ops2)
               ELSE Respond(404, BodyNotFound, "text/plain", ops2)
       ELSE ServeFile(fullpath, ops1)

\* Lines 26-36.
RunBody(request, root) ==
    IF request.none \/ request.text = <<>> THEN Abort
    ELSE LET parsed == ParseRequestLine(request.text)
         IN IF ~parsed.ok THEN Raise(<<>>)
            ELSE IF ~IsGetMethod(parsed.method)
                 THEN Respond(405, BodyNotAllowed, "text/plain", <<>>)
            ELSE LET fullpath == FullPath(root, parsed.path)
                 IN IF ~Contained(fullpath, root)
                    THEN Respond(404, BodyNotFound, "text/plain", <<>>)
                    ELSE ServePath(fullpath)

----------------------------------------------------------------------------
(* What clients send.  A plan is the sequence of byte chunks the recv     *)
(* calls return, and what the socket does once they are used up: "eof"     *)
(* (the peer closed), "timeout" (2 s without a byte) or "error".           *)

Segs == {StrDotDot, <<DOT>>, <<>>, SegWs, SegE, StrIndexHtml}

SegLists == UNION {[1..n -> Segs] : n \in 0..MaxSegs}

\* Targets of up to MaxSegs segments, the bare segments without a slash,
\* and targets that name /w/u and /w/e/x or leave the document root and
\* come back.
Targets ==
    {AbsOf(l) : l \in SegLists}
    \cup (Segs \ {<<>>})
    \cup { AbsOf(<<SegU>>), AbsOf(<<SegX>>), AbsOf(<<SegE, SegX>>),
           AbsOf(<<SegW>>), AbsOf(<<SegW, <<>>>>), AbsOf(<<SegW, SegU>>), AbsOf(<<SegW, SegE, SegX>>),
           AbsOf(<<StrDotDot, SegU>>),
           AbsOf(<<StrDotDot, SegW, StrIndexHtml>>),
           AbsOf(<<StrDotDot, StrDotDot, SegW, SegE, SegX>>) }

Request(method, target) == method \o <<SP>> \o target \o <<SP>> \o StrVersion \o Terminator

OtherMethods == {StrPOST, StrHEAD, StrGetLower}
MethodTargets ==
    {AbsOf(<<StrIndexHtml>>), AbsOf(<<SegU>>), AbsOf(<<SegX>>), AbsOf(<<StrDotDot, SegWs>>)}

\* Requests whose first line is empty or has fewer than three tokens, and
\* well-formed ones with extra tokens, header lines, or other whitespace.
OddRequests ==
    { Terminator,
      <<SP>> \o Terminator,
      StrGET \o Terminator,
      StrGET \o <<SP, SLASH>> \o Terminator,
      StrGET \o <<SP, SLASH, SP>> \o StrVersion \o <<SP, "x">> \o Terminator,
      StrPOST \o <<SP, SLASH, SP>> \o StrVersion \o <<SP, "x">> \o Terminator,
      StrGET \o <<"\t", SLASH, LF>> \o StrVersion \o Terminator,
      StrGET \o <<SP, SLASH, SP>> \o StrVersion \o CRLF \o <<"H", ":", SP, "x">> \o Terminator,
      <<SLASH, SP>> \o StrGET \o <<SP>> \o StrVersion \o Terminator }

Endings == {"eof", "timeout", "error"}

Plan(chunks, ending) == [chunks |-> chunks, ending |-> ending]
Whole(req) == Plan(<<req>>, "eof")

\* A request cut after k bytes, and a request delivered in two chunks.
CutPlans(req) ==
    {Plan(IF k = 0 THEN <<>> ELSE <<SubSeq(req, 1, k)>>, e) :
        k \in 0..(Len(req) - 1), e \in Endings}
SplitPlans(req) ==
    {Plan(<<SubSeq(req, 1, k), SubSeq(req, k + 1, Len(req))>>, "eof") : k \in 1..(Len(req) - 1)}

ReadRequests == {Request(StrGET, AbsOf(<<StrIndexHtml>>)), Request(StrPOST, AbsOf(<<SegU>>))}

\* A request line that is never followed by the header terminator, and a
\* request followed by more bytes in a later chunk.
RequestLine(method, target) == method \o <<SP>> \o target \o <<SP>> \o StrVersion
LinePlans ==
    { Plan(<<RequestLine(StrGET, AbsOf(<<SegX>>))>>, "timeout"),
      Plan(<<RequestLine(StrGET, AbsOf(<<SegE, SegX>>)), CRLF>>, "timeout"),
      Plan(<<Request(StrGET, AbsOf(<<StrIndexHtml>>)), <<"x">>>>, "timeout"),
      Plan(<<Request(StrGET, AbsOf(<<SegX>>)), <<"x">>>>, "error") }

\* Clients that never stop: after the chunks, one more byte arrives before
\* each timeout, for ever, and never the header terminator.
DripPlans ==
    { Plan(<<>>, "drip"), Plan(<<StrGET>>, "drip"),
      Plan(<<RequestLine(StrGET, AbsOf(<<StrIndexHtml>>)), CRLF>>, "drip") }

WorkerPlans ==
    LinePlans \cup
    {Whole(Request(StrGET, t)) : t \in Targets}
    \cup {Whole(Request(m, t)) : m \in OtherMethods, t \in MethodTargets}
    \cup {Whole(r) : r \in OddRequests}
    \cup UNION {CutPlans(r) \cup SplitPlans(r) : r \in ReadRequests}

ServerPlans ==
    { Whole(Request(StrGET, AbsOf(<<StrIndexHtml>>))),
      Whole(StrGET \o Terminator),
      Plan(<<>>, "timeout"),
      Plan(<<>>, "eof"),
      Plan(<<StrGET>>, "error") }

DocRoots == {AbsOf(<<SegW>>), AbsOf(<<SegW, SegE>>), <<SLASH>>}

----------------------------------------------------------------------------
(* One connection and its handler thread. *)

\* The value of `request` before _recv_request has returned, and None.
None == [none |-> TRUE, text |-> <<>>]
\* data.decode('iso-8859-1') if data else '': one character per byte.
Text(data) == [none |-> FALSE, text |-> data]

NewConn(plan) ==
    [ chunks |-> plan.chunks, ending |-> plan.ending,
      pc |-> "recv", open |-> TRUE,
      data |-> <<>>, request |-> None,
      drips |-> 0,       \* bytes received from a client that never stops
      tosend |-> <<>>,
      out |-> <<>>,      \* one record per sendall call: the bytes it wrote
      calls |-> <<>>,    \* the status codes passed to _send_response
      fsops |-> <<>> ]   \* the file-system calls made

\* recv(1024) returns at most this many bytes.
RecvSize == 1024

Set(i, c) == conns' = [conns EXCEPT ![i] = c]

\* Lines 68-72: one recv that returns bytes.
RecvChunk(i) ==
    LET c == conns[i] IN
    /\ c.pc = "recv"
    /\ c.chunks # <<>>
    /\ LET avail == Head(c.chunks)
           n == Min(Len(avail), RecvSize)
           data == c.data \o SubSeq(avail, 1, n)
           left == IF n < Len(avail)
                   THEN <<SubSeq(avail, n + 1, Len(avail))>> \o Tail(c.chunks)
                   ELSE Tail(c.chunks)
       IN Set(i, [c EXCEPT !.data = data, !.chunks = left,
                           !.pc = IF Contains(data, Terminator) THEN "handle" ELSE "recv",
                           !.request = IF Contains(data, Terminator) THEN Text(data) ELSE None])
    /\ UNCHANGED <<docroot, listening, mainpc>>

\* Lines 70-71: recv returns b'' because the peer closed.
RecvClosed(i) ==
    LET c == conns[i] IN
    /\ c.pc = "recv" /\ c.chunks = <<>> /\ c.ending = "eof"
    /\ Set(i, [c EXCEPT !.pc = "handle", !.request = Text(c.data)])
    /\ UNCHANGED <<docroot, listening, mainpc>>

RecvTimeoutAborts(i) ==
    LET c == conns[i] IN
    /\ c.pc = "recv" /\ c.chunks = <<>> /\ c.ending = "timeout"
    /\ Set(i, [c EXCEPT !.pc = "handle", !.request = None])
    /\ UNCHANGED <<docroot, listening, mainpc>>

\* Lines 68-72 for a client that never stops: recv returns one more byte,
\* which completes no header terminator, and the loop goes on.  data keeps
\* the first MaxDrip of these bytes, and drips counts them up to MaxDrip
\* and alternates above it: the loop tests nothing else of the later bytes.
RecvDrip(i) ==
    LET c == conns[i] IN
    /\ c.pc = "recv" /\ c.chunks = <<>> /\ c.ending = "drip"
    /\ Set(i, IF c.drips < MaxDrip
              THEN [c EXCEPT !.data = c.data \o <<"x">>, !.drips = c.drips + 1]
              ELSE [c EXCEPT !.drips = IF c.drips = MaxDrip THEN MaxDrip + 1 ELSE MaxDrip])
    /\ UNCHANGED <<docroot, listening, mainpc>>

\* Lines 73-74: recv raises socket.timeout.
RecvTimeout(i) ==
    LET c == conns[i] IN
    /\ c.pc = "recv" /\ c.chunks = <<>> /\ c.ending = "timeout"
    /\ Set(i, [c EXCEPT !.pc = "handle", !.request = Text(c.data)])
    /\ UNCHANGED <<docroot, listening, mainpc>>

RecvErrorKeepsData(i) ==
    LET c == conns[i] IN
    /\ c.pc = "recv" /\ c.chunks = <<>> /\ c.ending = "error"
    /\ Set(i, [c EXCEPT !.pc = "handle", !.request = Text(c.data)])
    /\ UNCHANGED <<docroot, listening, mainpc>>

\* Lines 75-76: recv raises another exception.
RecvError(i) ==
    LET c == conns[i] IN
    /\ c.pc = "recv" /\ c.chunks = <<>> /\ c.ending = "error"
    /\ Set(i, [c EXCEPT !.pc = "handle", !.request = None])
    /\ UNCHANGED <<docroot, listening, mainpc>>

\* Lines 26-52 up to the call of sendall.
Handle(i) ==
    LET c == conns[i]
        r == RunBody(c.request, docroot)
    IN
    /\ c.pc = "handle"
    /\ Set(i, IF r.kind = "abort" THEN [c EXCEPT !.pc = "finally", !.open = FALSE]
              ELSE IF r.kind = "raise"
                   THEN [c EXCEPT !.pc = "except", !.fsops = r.fsops]
              ELSE [c EXCEPT !.pc = "send", !.fsops = r.fsops,
                             !.calls = Append(c.calls, r.status),
                             !.tosend = ResponseBytes(r.status, r.body, r.ctype)])
    /\ UNCHANGED <<docroot, listening, mainpc>>

Write(bytes, complete) == [bytes |-> bytes, complete |-> complete]

\* The numbers of leading pieces a failing sendall may have written.
Cuts(bytes) == 0..Min(MaxCut, Len(bytes) - 1)

\* Line 100 returns: everything was written; run returns into finally.
SendOk(i) ==
    LET c == conns[i] IN
    /\ c.pc = "send"
    /\ Set(i, [c EXCEPT !.pc = "finally", !.tosend = <<>>,
                        !.out = Append(c.out, Write(c.tosend, TRUE))])
    /\ UNCHANGED <<docroot, listening, mainpc>>

SendFailStopsAcceptor(i) ==
    LET c == conns[i] IN
    /\ c.pc = "send"
    /\ \E k \in Cuts(c.tosend) :
         Set(i, [c EXCEPT !.pc = "except", !.tosend = <<>>,
                          !.out = Append(c.out, Write(SubSeq(c.tosend, 1, k), FALSE))])
    /\ listening' = FALSE
    /\ UNCHANGED <<docroot, mainpc>>

\* Line 100 raises after writing k pieces; control passes to line 53.
SendFail(i) ==
    LET c == conns[i] IN
    /\ c.pc = "send"
    /\ \E k \in Cuts(c.tosend) :
         Set(i, [c EXCEPT !.pc = "except", !.tosend = <<>>,
                          !.out = Append(c.out, Write(SubSeq(c.tosend, 1, k), FALSE))])
    /\ UNCHANGED <<docroot, listening, mainpc>>

Response500 == ResponseBytes(500, BodyInternal, "text/plain")

\* Lines 53-55: the except clause sends a 500 and the send returns.
ExceptSendOk(i) ==
    LET c == conns[i] IN
    /\ c.pc = "except"
    /\ Set(i, [c EXCEPT !.pc = "finally", !.calls = Append(c.calls, 500),
                        !.out = Append(c.out, Write(Response500, TRUE))])
    /\ UNCHANGED <<docroot, listening, mainpc>>

ExceptSendFailRaises(i) ==
    LET c == conns[i] IN
    /\ c.pc = "except"
    /\ \E k \in Cuts(Response500) :
         Set(i, [c EXCEPT !.pc = "done", !.calls = Append(c.calls, 500),
                          !.out = Append(c.out, Write(SubSeq(Response500, 1, k), FALSE))])
    /\ UNCHANGED <<docroot, listening, mainpc>>

\* Lines 53-57: the send of the 500 raises too, and the exception is dropped.
ExceptSendFail(i) ==
    LET c == conns[i] IN
    /\ c.pc = "except"
    /\ \E k \in Cuts(Response500) :
         Set(i, [c EXCEPT !.pc = "finally", !.calls = Append(c.calls, 500),
                          !.out = Append(c.out, Write(SubSeq(Response500, 1, k), FALSE))])
    /\ UNCHANGED <<docroot, listening, mainpc>>

FinallyNoClose(i) ==
    LET c == conns[i] IN
    /\ c.pc = "finally"
    /\ Set(i, [c EXCEPT !.pc = "done"])
    /\ UNCHANGED <<docroot, listening, mainpc>>

\* Lines 58-62: the finally clause closes the socket and run ends.
Finally(i) ==
    LET c == conns[i] IN
    /\ c.pc = "finally"
    /\ Set(i, [c EXCEPT !.pc = "done", !.open = FALSE])
    /\ UNCHANGED <<docroot, listening, mainpc>>

----------------------------------------------------------------------------
(* run_server, lines 109-116. *)

AcceptorReadyInline == listening /\ \A i \in 1..Len(conns) : conns[i].pc = "done"

\* The acceptor is in accept(): worker.start() returned at once, so no
\* handler holds it (lines 112-114).
AcceptorReady == listening

\* Lines 111-114: accept returns a socket and a started worker thread owns it.
Accept ==
    /\ AcceptorReady
    /\ Len(conns) < MaxConns
    /\ \E p \in ServerPlans : conns' = Append(conns, NewConn(p))
    /\ UNCHANGED <<docroot, listening, mainpc>>

\* Lines 111, 115-116: accept raises; the exception leaves the loop, the
\* finally clause closes the listening socket and the exception leaves
\* run_server and main.
AcceptFail ==
    /\ AcceptorReady
    /\ listening' = FALSE
    /\ mainpc' = "raised"
    /\ UNCHANGED <<docroot, conns>>

\* Lines 111-116: accept returns a socket and worker.start() raises; the
\* worker never runs and nothing closes its socket; the exception leaves
\* the loop as above.
StartFail ==
    /\ AcceptorReady
    /\ Len(conns) < MaxConns
    /\ \E p \in ServerPlans : conns' = Append(conns, [NewConn(p) EXCEPT !.pc = "unstarted"])
    /\ listening' = FALSE
    /\ mainpc' = "raised"
    /\ UNCHANGED docroot

----------------------------------------------------------------------------
(* main, lines 119-128. *)

\* The values of --docroot: a directory (also written with a trailing
\* slash), a regular file, a missing path.
SegNx == <<"n", "x">>
MainRoots ==
    {AbsOf(<<SegW>>), AbsOf(<<SegW, <<>>>>), AbsOf(<<SegWs>>), AbsOf(<<SegNx>>)}

\* Lines 124-128 and 104-107: main makes the document root absolute and
\* exits with status 1 when it does not exist; otherwise run_server binds
\* and listens.
Main ==
    /\ mainpc = "main"
    /\ docroot' = AbsPath(docroot)
    /\ IF ~Exists(docroot')
       THEN mainpc' = "exit1" /\ UNCHANGED listening
       ELSE mainpc' = "run_server" /\ listening' = TRUE
    /\ UNCHANGED conns

----------------------------------------------------------------------------
(* Specifications. *)

\* The server: the acceptor and the handlers it started.
Init ==
    /\ docroot = AbsOf(<<SegW>>)
    /\ listening = TRUE
    /\ conns = <<>>
    /\ mainpc = "run_server"

Next ==
    \/ Accept
    \/ AcceptFail
    \/ StartFail
    \/ \E i \in 1..Len(conns) : RecvChunk(i)
    \/ \E i \in 1..Len(conns) : RecvClosed(i)
    \/ \E i \in 1..Len(conns) : RecvTimeout(i)
    \/ \E i \in 1..Len(conns) : RecvError(i)
    \/ \E i \in 1..Len(conns) : Handle(i)
    \/ \E i \in 1..Len(conns) : SendOk(i)
    \/ \E i \in 1..Len(conns) : SendFail(i)
    \/ \E i \in 1..Len(conns) : ExceptSendOk(i)
    \/ \E i \in 1..Len(conns) : ExceptSendFail(i)
    \/ \E i \in 1..Len(conns) : Finally(i)

Spec == Init /\ [][Next]_vars

\* One handler, constructed on a connection of any plan.
InitWorker ==
    /\ docroot \in DocRoots
    /\ listening = FALSE
    /\ \E p \in WorkerPlans : conns = <<NewConn(p)>>
    /\ mainpc = "run_server"

NextWorker ==
    \/ \E i \in 1..Len(conns) : RecvChunk(i)
    \/ \E i \in 1..Len(conns) : RecvClosed(i)
    \/ \E i \in 1..Len(conns) : RecvTimeout(i)
    \/ \E i \in 1..Len(conns) : RecvError(i)
    \/ \E i \in 1..Len(conns) : Handle(i)
    \/ \E i \in 1..Len(conns) : SendOk(i)
    \/ \E i \in 1..Len(conns) : SendFail(i)
    \/ \E i \in 1..Len(conns) : ExceptSendOk(i)
    \/ \E i \in 1..Len(conns) : ExceptSendFail(i)
    \/ \E i \in 1..Len(conns) : Finally(i)

SpecWorker == InitWorker /\ [][NextWorker]_vars

\* The process from the start of main.
InitMain ==
    /\ docroot \in MainRoots
    /\ listening = FALSE
    /\ conns = <<>>
    /\ mainpc = "main"

NextMain ==
    \/ Main
    \/ Next

SpecMain == InitMain /\ [][NextMain]_vars

\* One handler with every thread and timer running: the handler thread is
\* scheduled, a recv returns, times out after 2 s or raises, a sendall
\* returns or raises; the clients include those that never stop sending.
LivePlans ==
    DripPlans \cup LinePlans \cup UNION {CutPlans(r) \cup SplitPlans(r) : r \in ReadRequests}

InitLive ==
    /\ docroot \in DocRoots
    /\ listening = FALSE
    /\ \E p \in LivePlans : conns = <<NewConn(p)>>
    /\ mainpc = "run_server"

NextLive ==
    \/ \E i \in 1..Len(conns) : RecvDrip(i)
    \/ NextWorker

\* The steps of the handler other than Handle.
IoStep ==
    \/ \E i \in 1..Len(conns) : RecvDrip(i)
    \/ \E i \in 1..Len(conns) : RecvChunk(i)
    \/ \E i \in 1..Len(conns) : RecvClosed(i)
    \/ \E i \in 1..Len(conns) : RecvTimeout(i)
    \/ \E i \in 1..Len(conns) : RecvError(i)
    \/ \E i \in 1..Len(conns) : SendOk(i)
    \/ \E i \in 1..Len(conns) : SendFail(i)
    \/ \E i \in 1..Len(conns) : ExceptSendOk(i)
    \/ \E i \in 1..Len(conns) : ExceptSendFail(i)
    \/ \E i \in 1..Len(conns) : Finally(i)

\* Weak fairness of the handler's steps; for Handle, which is enabled
\* exactly at pc = "handle" and leaves it, weak fairness is that the
\* handler does not stay there.
Fairness ==
    /\ WF_vars(IoStep)
    /\ []<>(\A i \in 1..Len(conns) : conns[i].pc # "handle")

SpecLive == InitLive /\ [][NextLive]_vars /\ Fairness

----------------------------------------------------------------------------------------------------------------------------------------
(* Vocabulary of the properties: what a client sent and what it got back,  *)
(* read off the connection without the handler's own computations.         *)

Conns == {conns[i] : i \in 1..Len(conns)}

\* The non-empty segments of a path.
PathSegs(path) ==
    LET NonEmpty(x) == x # <<>>
    IN SelectSeq(SplitChar(path, SLASH), NonEmpty)

\* path is lexically normal and is root or a descendant of it, segment by segment.
Within(path, root) ==
    LET ps == PathSegs(path)
        rs == PathSegs(root)
    IN /\ \A k \in 1..Len(ps) : ps[k] # <<DOT>> /\ ps[k] # StrDotDot
       /\ Len(rs) <= Len(ps)
       /\ SubSeq(ps, 1, Len(rs)) = rs

\* The handler has left the read phase and run lines 26-52 up to a send.
Handled(c) == c.pc \notin {"recv", "handle"}
\* The handler has returned.
Finished(c) == c.pc = "done"

\* The read phase is over and it ended in an I/O error: the client's bytes
\* ran out before the header terminator and the next recv raised.
ReadFailed(c) ==
    c.pc # "recv" /\ c.ending = "error" /\ c.chunks = <<>> /\ ~Contains(c.data, Terminator)
\* The read phase is over and not one byte had arrived.
NothingReceived(c) == c.pc # "recv" /\ c.data = <<>>
\* The handler has returned from a read that ended with at least one byte
\* and without an I/O error.
Received(c) == Finished(c) /\ ~ReadFailed(c) /\ c.data # <<>>

\* The whitespace-separated tokens of the first line received.
Tokens(c) == SplitWhitespace(FirstLine(c.data))
\* toks are the tokens of a received request line with method, target, version.
WellFormed(c, toks) == Received(c) /\ Len(toks) >= 3
GetRequest(c, toks) == WellFormed(c, toks) /\ toks[1] = StrGET
\* The path the target resolves to (step 1 of the path resolution).
Candidate(toks) == FullPath(docroot, toks[2])

RegularFile(path) == FsHas(path) /\ FsGet(path).kind = "file"
Directory(path) == FsHas(path) /\ FsGet(path).kind = "dir"
Readable(path) == RegularFile(path) /\ FsGet(path).readable
IndexOf(dir) == AbsOf(PathSegs(dir) \o <<StrIndexHtml>>)

\* The status the handler first answers with, 0 while it has passed none.
FirstStatus(c) == IF c.calls = <<>> THEN 0 ELSE c.calls[1]
\* The first sendall wrote its whole response.
Answered(c) == c.out # <<>> /\ c.out[1].complete

\* A response as a client parses it from the bytes on the wire.
IsDigit(ch) == \E d \in 0..9 : DigitChar(d) = ch
DigitVal(ch) == CHOOSE d \in 0..9 : DigitChar(d) = ch
RECURSIVE ParseDecimal(_)
ParseDecimal(s) ==
    IF s = <<>> THEN 0
    ELSE 10 * ParseDecimal(SubSeq(s, 1, Len(s) - 1)) + DigitVal(s[Len(s)])
\* The digits at the start of s.
RECURSIVE LeadingDigits(_)
LeadingDigits(s) ==
    IF s # <<>> /\ IsDigit(Head(s)) THEN <<Head(s)>> \o LeadingDigits(Tail(s)) ELSE <<>>

WireStatus(bytes) == ParseDecimal(LeadingDigits(Tail(bytes)))

\* bytes are a status line, headers with a Content-Length, a blank line and
\* a body, and the status, Content-Length value and body are these.
WireIs(bytes, status, length, body) ==
    LET t == FindFirst(bytes, Terminator)
        head == SubSeq(bytes, 1, t - 1)
        i == FindFirst(head, <<"Content-Length: ">>)
        digits == LeadingDigits(SubSeq(head, i + 1, Len(head)))
    IN /\ t > 0
       /\ bytes[1] = "HTTP/1.1 "
       /\ WireStatus(bytes) = status
       /\ i > 0
       /\ digits # <<>>
       /\ ParseDecimal(digits) = length
       /\ SubSeq(bytes, t + Len(Terminator), Len(bytes)) = body

\* The Content-Length of bytes equals the number of its bytes after the blank line.
WellFramed(bytes) ==
    LET t == FindFirst(bytes, Terminator)
        body == SubSeq(bytes, t + Len(Terminator), Len(bytes))
    IN t > 0 /\ WireIs(bytes, WireStatus(bytes), Len(body), body)

\* The connection got exactly one response, whole: this status and this body.
GotOnly(c, status, body) ==
    /\ Len(c.out) = 1
    /\ c.out[1].complete
    /\ WireIs(c.out[1].bytes, status, Len(body), body)

----------------------------------------------------------------------------
(* Properties. *)

\* C1: the handler never opens a file whose normalized path is neither the
\* document root nor a descendant of it, segment by segment.
C1_NeverOpensOutside ==
    \A c \in Conns : \A k \in 1..Len(c.fsops) :
        c.fsops[k].op = "open" => Within(c.fsops[k].path, docroot)

\* C2: a handler that has returned from a GET whose target resolves outside
\* the document root answered 404, whether or not a file exists there.
C2_OutsideIs404 ==
    \A c \in Conns :
        LET toks == Tokens(c) IN
        (GetRequest(c, toks) /\ ~Within(Candidate(toks), docroot)) => FirstStatus(c) = 404

\* C3 as stated: a GET whose target resolves to an existing regular file
\* within the document root is answered 200.
C3_ExistingFileIs200 ==
    \A c \in Conns :
        LET toks == Tokens(c)
            file == Candidate(toks)
        IN (GetRequest(c, toks) /\ Within(file, docroot) /\ RegularFile(file))
              => FirstStatus(c) = 200

\* C3, amended: a GET whose target resolves to a regular file F within the
\* document root that can be opened and read is answered 200, and the
\* response, once written whole, is the only one, with Content-Length the
\* length of F and body the bytes of F.
C3_ReadableFileIs200 ==
    \A c \in Conns :
        LET toks == Tokens(c)
            file == Candidate(toks)
        IN (GetRequest(c, toks) /\ Within(file, docroot) /\ Readable(file))
              => /\ FirstStatus(c) = 200
                 /\ Answered(c) => GotOnly(c, 200, FsGet(file).content)

C3_Witness ==
    \E c \in Conns :
        LET toks == Tokens(c)
            file == Candidate(toks)
        IN /\ GetRequest(c, toks) /\ Within(file, docroot) /\ Readable(file)
           /\ Answered(c)
           /\ Len(FsGet(file).content) > 0

\* C4: a request line of three or more tokens whose method is not exactly
\* GET is answered 405 and the handler makes no file-system call.
C4_NonGetIs405 ==
    \A c \in Conns :
        LET toks == Tokens(c) IN
        (WellFormed(c, toks) /\ toks[1] # StrGET)
            => /\ FirstStatus(c) = 405
               /\ c.fsops = <<>>
               /\ Answered(c) => GotOnly(c, 405, BodyNotAllowed)

C4_Witness ==
    \E c \in Conns :
        LET toks == Tokens(c) IN
        /\ WellFormed(c, toks) /\ toks[1] = StrGetLower
        /\ RegularFile(Candidate(toks)) /\ ~Readable(Candidate(toks))
        /\ Answered(c)

\* C5: a handler that has ended has closed its connection, on every path.
C5_ClosedAtEnd == \A c \in Conns : Finished(c) => ~c.open

C5_Witness ==
    \E c \in Conns :
        /\ Finished(c) /\ ~c.open
        /\ Len(c.out) = 2 /\ ~c.out[1].complete /\ ~c.out[2].complete

\* C6: every response a handler has written whole, of any status, carries a
\* Content-Length equal to the number of bytes after its blank line; so does
\* every response handed to sendall.
C6_ContentLengthMatches ==
    \A c \in Conns :
        /\ Finished(c) => \A k \in 1..Len(c.out) : c.out[k].complete => WellFramed(c.out[k].bytes)
        /\ c.pc = "send" => WellFramed(c.tosend)

C6_Witness ==
    \E c \in Conns :
        /\ Finished(c)
        /\ Len(c.out) = 2
        /\ ~c.out[1].complete /\ c.out[1].bytes # <<>>
        /\ c.out[2].complete
        /\ WireIs(c.out[2].bytes, 500, Len(BodyInternal), BodyInternal)

\* C7 as stated: a GET for a directory inside the document root is answered
\* 200 when index.html exists directly inside it and 404 when it does not,
\* and a GET for a path that does not exist is answered 404.
C7_DirectoryIndexExists ==
    \A c \in Conns :
        LET toks == Tokens(c)
            dir == Candidate(toks)
        IN GetRequest(c, toks) =>
              /\ (Within(dir, docroot) /\ Directory(dir))
                   => FirstStatus(c) = (IF FsHas(IndexOf(dir)) THEN 200 ELSE 404)
              /\ ~FsHas(dir) => FirstStatus(c) = 404

\* C7, amended: the directory's index.html is served with 200 when it is a
\* regular file that can be opened and read; the answer is 404 when the
\* directory has no index.html and when the target does not exist.
C7_DirectoryIndexReadable ==
    \A c \in Conns :
        LET toks == Tokens(c)
            dir == Candidate(toks)
            inside == Within(dir, docroot) /\ Directory(dir)
        IN GetRequest(c, toks) =>
              /\ (inside /\ Readable(IndexOf(dir)))
                   => /\ FirstStatus(c) = 200
                      /\ Answered(c) => GotOnly(c, 200, FsGet(IndexOf(dir)).content)
              /\ ((inside /\ ~FsHas(IndexOf(dir))) \/ ~FsHas(dir))
                   => /\ FirstStatus(c) = 404
                      /\ Answered(c) => GotOnly(c, 404, BodyNotFound)

C7_Witness ==
    \E c \in Conns :
        LET toks == Tokens(c)
            dir == Candidate(toks)
        IN /\ GetRequest(c, toks)
           /\ Within(dir, docroot) /\ Directory(dir) /\ dir # docroot
           /\ Readable(IndexOf(dir))
           /\ Answered(c)

\* C8: when no byte was ever received, or the read failed with an I/O error
\* at any point, the handler passes nothing to sendall, writes nothing, and
\* closes the connection.
C8_SilentAbort ==
    \A c \in Conns :
        (ReadFailed(c) \/ NothingReceived(c))
            => /\ c.out = <<>>
               /\ c.calls = <<>>
               /\ c.tosend = <<>>
               /\ Handled(c) => ~c.open

C8_Witness ==
    \E c \in Conns : ReadFailed(c) /\ c.data # <<>> /\ Finished(c)

\* C9: a received request whose first line is empty or has fewer than three
\* tokens is answered 500 and nothing else; with three or more tokens the
\* handler decides as it does for the request made of the first three alone.
FirstThree(toks) == toks[1] \o <<SP>> \o toks[2] \o <<SP>> \o toks[3] \o Terminator

C9_MalformedIs500 ==
    \A c \in Conns :
        LET toks == Tokens(c)
            r == RunBody(Text(FirstThree(toks)), docroot)
        IN /\ (Received(c) /\ Len(toks) < 3)
                => /\ c.fsops = <<>>
                   /\ c.calls = <<500>>
                   /\ Answered(c) => GotOnly(c, 500, BodyInternal)
                   /\ ~c.open
           /\ WellFormed(c, toks)
                => IF r.kind = "respond"
                   THEN FirstStatus(c) = r.status /\ c.fsops = r.fsops
                   ELSE FirstStatus(c) = 500

C9_Witness ==
    \E c \in Conns :
        /\ Received(c) /\ Len(Tokens(c)) < 3 /\ FirstLine(c.data) # <<>>
        /\ Answered(c)

\* C10: whatever the handlers are doing, a listening acceptor below the
\* connection bound can accept the next connection and start its handler.
C10_AcceptNeverBlocked == (listening /\ Len(conns) < MaxConns) => ENABLED Accept

C10_Witness ==
    /\ listening
    /\ Len(conns) = 2
    /\ conns[1].pc = "recv" /\ conns[1].chunks = <<>>
    /\ conns[2].pc = "recv"

\* C11: a failing accept call, or a failing start of the handler of an
\* accepted connection, leaves the listening socket open and the accept
\* loop running.
C11_AcceptFailureKeepsListening ==
    [][(AcceptFail \/ StartFail) => (listening' /\ mainpc' = "run_server")]_vars

\* C12: the process listens only on a document root that exists and is a
\* directory; otherwise main has exited with status 1 and never listened.
C12_ListensOnlyOnDirectory ==
    /\ listening => Directory(docroot)
    /\ (mainpc # "main" /\ ~Directory(docroot)) => (mainpc = "exit1" /\ conns = <<>>)

\* The handler's last file-system call was an open of something that
\* cannot be opened and read.
OpenFailed(c) ==
    /\ c.fsops # <<>>
    /\ c.fsops[Len(c.fsops)].op = "open"
    /\ ~Readable(c.fsops[Len(c.fsops)].path)
\* The first response was not a 500 and its send failed part-way.
FirstSendFailed(c) == c.out # <<>> /\ ~c.out[1].complete /\ c.calls[1] # 500
\* How many times the handler passed this status to _send_response.
TimesSent(c, status) == Cardinality({k \in 1..Len(c.calls) : c.calls[k] = status})

\* C13: when, after a request line of three or more tokens was parsed, the
\* open of the file or the send of the response fails, the handler makes
\* exactly one attempt to send a 500, as its last write, and returns with
\* the connection closed whether or not that attempt succeeded.
C13_OneBestEffort500 ==
    \A c \in Conns :
        LET toks == Tokens(c) IN
        (WellFormed(c, toks) /\ (OpenFailed(c) \/ FirstSendFailed(c)))
            => /\ TimesSent(c, 500) = 1
               /\ c.calls[Len(c.calls)] = 500
               /\ Len(c.out) = Len(c.calls)
               /\ ~c.open

C13_Witness ==
    \E c \in Conns :
        /\ WellFormed(c, Tokens(c)) /\ OpenFailed(c)
        /\ c.calls = <<500>>
        /\ ~c.out[Len(c.out)].complete
        /\ ~c.open

\* The connections a step changes.
Changed == {i \in 1..Len(conns) : conns'[i] # conns[i]}
\* A step of a handler changes its own connection only: not the acceptor,
\* not the document root, not another connection.
StepIsOwn ==
    Changed # {} =>
        /\ Cardinality(Changed) = 1
        /\ Len(conns') = Len(conns)
        /\ listening' = listening /\ mainpc' = mainpc /\ docroot' = docroot
\* Two finished connections that received the same bytes from reads that
\* ended the same way made the same file-system calls and got the same
\* first status, and the same first response when both got it whole (the
\* Date value aside, which is the clock's).
OutcomeIsOwn ==
    \A c1, c2 \in Conns :
        (/\ Finished(c1) /\ Finished(c2)
         /\ c1.data = c2.data /\ ReadFailed(c1) = ReadFailed(c2))
            => /\ c1.fsops = c2.fsops
               /\ FirstStatus(c1) = FirstStatus(c2)
               /\ (Answered(c1) /\ Answered(c2)) => c1.out[1] = c2.out[1]

TimedOut(c) ==
    c.pc # "recv" /\ c.ending = "timeout" /\ c.chunks = <<>> /\ ~Contains(c.data, Terminator)

\* C15: the handler reads on only while the buffer lacks the header
\* terminator, and stops at the terminator, at the peer's close or at a
\* timeout; a timeout after at least one byte is no abort: the handler
\* answers, and a request line of three tokens gets the 405, 200 or 404 it
\* gets with the terminator.
C15_TimeoutProceeds ==
    \A c \in Conns :
        LET toks == Tokens(c)
            file == Candidate(toks)
        IN /\ c.pc = "recv" => ~Contains(c.data, Terminator)
           /\ c.pc # "recv" => (Contains(c.data, Terminator) \/ c.chunks = <<>>)
           /\ (Finished(c) /\ TimedOut(c) /\ c.data # <<>>)
                 => /\ c.calls # <<>> /\ c.out # <<>>
                    /\ Len(toks) >= 3 =>
                         /\ toks[1] # StrGET => FirstStatus(c) = 405
                         /\ (toks[1] = StrGET /\ Within(file, docroot) /\ Readable(file))
                               => FirstStatus(c) = 200
                         /\ (toks[1] = StrGET /\ ~FsHas(file)) => FirstStatus(c) = 404

C15_Witness ==
    \E c \in Conns :
        /\ Finished(c) /\ TimedOut(c)
        /\ c.data = RequestLine(StrGET, AbsOf(<<SegX>>))
        /\ docroot = AbsOf(<<SegW, SegE>>)
        /\ GotOnly(c, 200, <<>>)

\* The status lines of the four responses, as digits and reason phrase.
StatusLines ==
    { [code |-> 200, digits |-> <<"2", "0", "0">>, reason |-> "OK"],
      [code |-> 404, digits |-> <<"4", "0", "4">>, reason |-> "Not Found"],
      [code |-> 405, digits |-> <<"4", "0", "5">>, reason |-> "Method Not Allowed"],
      [code |-> 500, digits |-> <<"5", "0", "0">>, reason |-> "Internal Server Error"] }
ContentTypes == {"text/plain", "text/html", "application/octet-stream"}

\* A response laid out on the wire: status line, Date, Server, Content-Type,
\* Content-Length, one blank line, body.
Layout(sl, ctype, length, body) ==
    <<"HTTP/1.1 ">> \o sl.digits \o <<" ", sl.reason>> \o CRLF
    \o <<"Date: ", "<now>">> \o CRLF
    \o <<"Server: ", "NikkiGorskiServer/1.0">> \o CRLF
    \o <<"Content-Type: ", ctype>> \o CRLF
    \o <<"Content-Length: ">> \o length \o CRLF
    \o CRLF
    \o body

\* bytes are laid out so for this status, with the body's length in decimal.
LaidOut(bytes, status) ==
    LET t == FindFirst(bytes, Terminator)
        body == SubSeq(bytes, t + Len(Terminator), Len(bytes))
        head == SubSeq(bytes, 1, t - 1)
        i == FindFirst(head, <<"Content-Length: ">>)
        length == SubSeq(head, i + 1, Len(head))
    IN /\ t > 0 /\ i > 0
       /\ length # <<>> /\ \A k \in 1..Len(length) : IsDigit(length[k])
       /\ ParseDecimal(length) = Len(body)
       /\ Len(length) > 1 => length[1] # "0"
       /\ \E sl \in StatusLines : \E ctype \in ContentTypes :
             sl.code = status /\ bytes = Layout(sl, ctype, length, body)

\* C16: every response written whole is the status line with the reason
\* phrase of its code, the Date, Server, Content-Type and Content-Length
\* headers in this order, one blank line and the body; a write cut short
\* by a failing send is the beginning of such a response; and the socket
\* is open during every write and closed only after the last one ended.
C16_ResponseLayout ==
    \A c \in Conns :
        /\ Len(c.out) <= Len(c.calls)
        /\ \A k \in 1..Len(c.out) :
              IF c.out[k].complete
              THEN LaidOut(c.out[k].bytes, c.calls[k])
              ELSE \E sl \in StatusLines :
                      /\ sl.code = c.calls[k]
                      /\ Len(c.out[k].bytes) <= 1 + Len(sl.digits)
                      /\ c.out[k].bytes
                            = SubSeq(<<"HTTP/1.1 ">> \o sl.digits, 1, Len(c.out[k].bytes))
        /\ c.pc \in {"send", "except"} => c.open
        /\ (~c.open /\ c.calls # <<>>)
              => (Finished(c) /\ c.tosend = <<>> /\ Len(c.out) = Len(c.calls))

C16_Witness ==
    \E c \in Conns :
        /\ Finished(c) /\ ~c.open
        /\ Len(c.out) = 1 /\ c.out[1].complete
        /\ LaidOut(c.out[1].bytes, 405)

\* The target with its run of leading slashes cut down to one.
RECURSIVE OneSlash(_)
OneSlash(t) ==
    IF Len(t) >= 2 /\ t[1] = SLASH /\ t[2] = SLASH THEN OneSlash(Tail(t)) ELSE t
\* A GET request line whose target begins with two or more slashes.
DoubleSlashGet(c, toks) == GetRequest(c, toks) /\ StartsWith(toks[2], <<SLASH, SLASH>>)
\* The path of the handler's first file-system call: the candidate it resolved.
FirstPath(c) == c.fsops[1].path

\* C17: a target that begins with two or more slashes does not resolve to
\* the candidate of the same target with a single leading slash.
C17_DoubleSlashDiffers ==
    \A c \in Conns :
        LET toks == Tokens(c) IN
        (DoubleSlashGet(c, toks) /\ c.fsops # <<>>)
            => FirstPath(c) # FullPath(docroot, OneSlash(toks[2]))

\* C17, amended: every leading slash of the target is stripped, so a target
\* that begins with two or more slashes resolves to the candidate of the
\* same target with a single leading slash, and is answered like it.
C17_LeadingSlashesStripped ==
    \A c \in Conns :
        LET toks == Tokens(c)
            single == RunBody(Text(Request(StrGET, OneSlash(toks[2]))), docroot)
        IN DoubleSlashGet(c, toks)
            => /\ c.fsops = single.fsops
               /\ c.fsops # <<>> => FirstPath(c) = FullPath(docroot, OneSlash(toks[2]))
               /\ FirstStatus(c) = IF single.kind = "respond" THEN single.status ELSE 500

C17_Witness ==
    \E c \in Conns :
        /\ DoubleSlashGet(c, Tokens(c))
        /\ docroot = AbsOf(<<SegW>>)
        /\ c.fsops # <<>>
        /\ FirstPath(c) = AbsOf(<<SegW, StrIndexHtml>>)
        /\ GotOnly(c, 200, <<"h", "i">>)

\* C18: once a write has put bytes of a response on the connection, no
\* later write puts any more: at most one status line is ever written.
C18_AtMostOneResponse ==
    \A c \in Conns :
        \A j, k \in 1..Len(c.out) :
            (j < k /\ c.out[j].bytes # <<>>) => c.out[k].bytes = <<>>

\* C19: every started handler eventually returns with its connection
\* closed, whatever its client does.
C19_HandlerTerminates == <>(\A c \in Conns : Finished(c) /\ ~c.open)

====
